---- MODULE Spec2Model ----
(***************************************************************************)
(* mcp_clockify: an MCP server whose eight tools are thin passthroughs to  *)
(* the Clockify REST API (src/src/index.ts).                               *)
(*                                                                         *)
(* The model follows one tool invocation through the places where the code *)
(* suspends: delivery by the transport, schema validation and the handler  *)
(* up to `await fetch`, the settlement of fetch, the reading of the body,  *)
(* and the hand-over of the result to the transport.                       *)
(*                                                                         *)
(* Texts are sequences of string pieces, so that template strings are      *)
(* concatenations; a raw HTTP body is such a text and JSON.parse is a      *)
(* parser over its pieces.  JavaScript values are records of one shape.    *)
(***************************************************************************)
EXTENDS Integers, Sequences, FiniteSets, TLC

\* env:   process.env.CLOCKIFY_API_KEY
\* slots: the invocations the transport may have in progress at once
\* inv:   each of them: where it stands, what it was called with, the
\*        credential it saw, the request it issued, the fetch calls it made,
\*        how fetch settled, and its result
\* configErrorServed: the process has answered a call with the
\*        configuration error (history)
\* overlapped: the invocations in progress that were delivered while another
\*        one stood suspended at its network call (history)
VARIABLES env, inv, slots, configErrorServed, overlapped

vars == <<env, inv, slots, configErrorServed, overlapped>>

(***************************************************************************)
(* Bounds of the model.                                                    *)
(***************************************************************************)
\* longest JSON array the upstream sends
MaxItems == 2

(***************************************************************************)
(* JavaScript values.                                                      *)
(***************************************************************************)
Undefined == "undefined"

\* property paths of the objects that travel through the server
Paths ==
  {"id", "name", "email", "activeWorkspace", "defaultWorkspace",
   "workspaceId", "billable", "projectId", "description",
   "timeInterval", "timeInterval.start", "timeInterval.end",
   "start", "end", "message", "userId"}

\* an object is its properties that are defined: JSON has no undefined, and
\* JSON.stringify leaves out a property whose value is undefined
NoProps == [p \in {} |-> Undefined]

Props(f) == [p \in {q \in DOMAIN f : f[q] # Undefined} |-> f[p]]

\* object.property: a property that is absent reads as undefined
Get(o, p) == IF p \in DOMAIN o THEN o[p] ELSE Undefined

\* a value: t is what the code can tell apart (null, string, object, array)
JSUndefined == [t |-> "undefined", s |-> <<>>, o |-> NoProps, a |-> <<>>]
JSNull      == [t |-> "null",      s |-> <<>>, o |-> NoProps, a |-> <<>>]
JSString(s) == [t |-> "string",    s |-> s,    o |-> NoProps, a |-> <<>>]
JSObject(o) == [t |-> "object",    s |-> <<>>, o |-> o,       a |-> <<>>]
JSArray(a)  == [t |-> "array",     s |-> <<>>, o |-> NoProps, a |-> a]

\* the elements of an array: null or an object
ItemNull   == [t |-> "null",   o |-> NoProps]
ItemObj(o) == [t |-> "object", o |-> o]

\* the outcome of evaluating an expression: a value or a thrown Error
Return(v)  == [threw |-> FALSE, msg |-> <<>>, val |-> v]
Throw(msg) == [threw |-> TRUE,  msg |-> msg,  val |-> JSUndefined]

(***************************************************************************)
(* Upstream bodies and JSON.parse.                                         *)
(***************************************************************************)
UserText  == "{\"id\":\"u1\",\"email\":\"a@b.c\",\"name\":\"Ann\",\"activeWorkspace\":\"w1\",\"defaultWorkspace\":\"w1\",\"userId\":\"x\"}"
EntryText == "{\"id\":\"e1\",\"description\":\"work\",\"timeInterval\":{\"start\":\"S\",\"end\":\"E\"},\"projectId\":\"p1\",\"userId\":\"u1\"}"
ItemAText == "{\"id\":\"a\",\"name\":\"A\",\"workspaceId\":\"w1\",\"billable\":true,\"projectId\":\"p1\",\"userId\":\"u1\"}"
ItemBText == "{\"id\":\"b\",\"name\":\"B\",\"workspaceId\":\"w2\",\"billable\":false,\"projectId\":\"p2\",\"userId\":\"u2\"}"
EmptyObjText == "{}"

ObjectTexts == {UserText, EntryText, ItemAText, ItemBText, EmptyObjText}

\* what each object text denotes
ObjOf(tok) ==
  CASE tok = UserText ->
         Props([id |-> "u1", email |-> "a@b.c", name |-> "Ann",
                activeWorkspace |-> "w1", defaultWorkspace |-> "w1",
                userId |-> "x"])
    [] tok = EntryText ->
         Props("timeInterval" :> "object" @@ "timeInterval.start" :> "S"
               @@ "timeInterval.end" :> "E"
               @@ [id |-> "e1", description |-> "work", projectId |-> "p1",
                   userId |-> "u1"])
    [] tok = ItemAText ->
         Props([id |-> "a", name |-> "A", workspaceId |-> "w1",
                billable |-> "true", projectId |-> "p1", userId |-> "u1"])
    [] tok = ItemBText ->
         Props([id |-> "b", name |-> "B", workspaceId |-> "w2",
                billable |-> "false", projectId |-> "p2", userId |-> "u2"])
    [] OTHER -> NoProps

\* the texts an array element is written as
ItemTexts == {ItemAText, ItemBText, "null"}

RECURSIVE Join(_)
\* the elements' texts separated by commas
Join(toks) ==
  IF Len(toks) <= 1 THEN toks
  ELSE <<Head(toks), ",">> \o Join(Tail(toks))

ArrayText(toks) == <<"[">> \o Join(toks) \o <<"]">>

RECURSIVE SeqsUpTo(_, _)
SeqsUpTo(S, n) ==
  IF n = 0 THEN {<<>>}
  ELSE LET shorter == SeqsUpTo(S, n - 1)
       IN  shorter \cup {Append(q, x) : q \in shorter, x \in S}

\* the raw bodies the upstream may send
Bodies ==
  {<<>>, <<"Not Found">>, <<"null">>, <<UserText>>, <<EntryText>>,
   <<EmptyObjText>>}
  \cup {ArrayText(toks) : toks \in SeqsUpTo(ItemTexts, MaxItems)}

ParseItem(tok) == IF tok = "null" THEN ItemNull ELSE ItemObj(ObjOf(tok))

RECURSIVE ParseElements(_)
\* the elements of an array from the pieces between its brackets
ParseElements(toks) ==
  IF toks = <<>> THEN Return(JSArray(<<>>))
  ELSE IF Head(toks) \notin ItemTexts THEN
         Throw(<<"Unexpected token in JSON">>)
  ELSE IF Len(toks) = 1 THEN Return(JSArray(<<ParseItem(toks[1])>>))
  ELSE IF toks[2] # "," \/ Len(toks) = 2 THEN
         Throw(<<"Unexpected token in JSON">>)
  ELSE LET rest == ParseElements(SubSeq(toks, 3, Len(toks)))
       IN  IF rest.threw THEN rest
           ELSE Return(JSArray(<<ParseItem(toks[1])>> \o rest.val.a))

\* response.json(): the body parsed, or a SyntaxError
JSONParse(raw) ==
  IF raw = <<>> THEN Throw(<<"Unexpected end of JSON input">>)
  ELSE IF raw = <<"null">> THEN Return(JSNull)
  ELSE IF Len(raw) = 1 /\ raw[1] \in ObjectTexts THEN
         Return(JSObject(ObjOf(raw[1])))
  ELSE IF Len(raw) >= 2 /\ raw[1] = "[" /\ raw[Len(raw)] = "]" THEN
         ParseElements(SubSeq(raw, 2, Len(raw) - 1))
  ELSE Throw(<<"Unexpected token in JSON">>)

(***************************************************************************)
(* The text of a tool result.                                              *)
(***************************************************************************)
\* a plain string, or the JSON serialisation of a value
PlainText(s) == [fmt |-> "plain", s |-> s, v |-> JSUndefined]
JSONStringify(v) == [fmt |-> "json", s |-> <<>>, v |-> v]
NoText == [fmt |-> "none", s |-> <<>>, v |-> JSUndefined]

(***************************************************************************)
(* Tools, their parameters and their input schemas.                        *)
(***************************************************************************)
Tools ==
  {"get-clockify-user", "list-clockify-workspaces", "list-clockify-projects",
   "list-clockify-tasks", "list-clockify-time-entries",
   "create-clockify-time-entry", "update-clockify-time-entry",
   "delete-clockify-time-entry"}

Params ==
  {"workspaceId", "name", "projectId", "userId", "start", "end", "page",
   "pageSize", "timeEntryId", "billable", "description"}

\* an argument as the caller sent it: its JavaScript type and its value
AUndef   == [ty |-> "undefined", s |-> "", n |-> 0]
AStr(x)  == [ty |-> "string",    s |-> x,  n |-> 0]
ANum(k)  == [ty |-> "number",    s |-> "", n |-> k]
ABool(x) == [ty |-> "boolean",   s |-> x,  n |-> 0]

\* the arguments of a call: the parameters the caller gave
NoArgs == [p \in {} |-> AUndef]

Args(f) == [p \in DOMAIN f |-> f[p]]

\* arguments.parameter: a parameter that was not given is undefined
Arg(args, p) == IF p \in DOMAIN args THEN args[p] ELSE AUndef

\* the zod types the schemas are built from
ZNone ==
  [ty |-> "none", optional |-> TRUE, hasDefault |-> FALSE, def |-> AUndef,
   hasMin |-> FALSE, min |-> 0]
ZString ==
  [ty |-> "string", optional |-> FALSE, hasDefault |-> FALSE, def |-> AUndef,
   hasMin |-> FALSE, min |-> 0]
ZStringOptional == [ZString EXCEPT !.optional = TRUE]
ZNumberMinDefault(m, d) ==
  [ty |-> "number", optional |-> FALSE, hasDefault |-> TRUE, def |-> ANum(d),
   hasMin |-> TRUE, min |-> m]
ZBooleanDefault(d) ==
  [ty |-> "boolean", optional |-> TRUE, hasDefault |-> TRUE, def |-> ABool(d),
   hasMin |-> FALSE, min |-> 0]

Shape(f) == [p \in Params |-> IF p \in DOMAIN f THEN f[p] ELSE ZNone]

TimeEntryShape ==
  [workspaceId |-> ZString, billable |-> ZBooleanDefault("true"),
   description |-> ZString, start |-> ZString, end |-> ZString,
   projectId |-> ZString]

\* inputSchema of each registered tool
InputSchema(tool) ==
  CASE tool = "list-clockify-projects" ->
         Shape([workspaceId |-> ZString, name |-> ZStringOptional])
    [] tool = "list-clockify-tasks" ->
         Shape([workspaceId |-> ZString, projectId |-> ZString])
    [] tool = "list-clockify-time-entries" ->
         Shape([workspaceId |-> ZString, userId |-> ZString,
                start |-> ZString, end |-> ZString,
                page |-> ZNumberMinDefault(1, 1),
                pageSize |-> ZNumberMinDefault(1, 100)])
    [] tool = "create-clockify-time-entry" -> Shape(TimeEntryShape)
    [] tool = "update-clockify-time-entry" ->
         Shape([timeEntryId |-> ZString] @@ TimeEntryShape)
    [] tool = "delete-clockify-time-entry" ->
         Shape([timeEntryId |-> ZString, workspaceId |-> ZString])
    [] OTHER -> Shape(<<>>)

\* a check that forgets .min(1) and takes an absent parameter for a string
FieldOk_Lax(z, a) ==
  \/ z.ty = "none"
  \/ a.ty = "undefined" /\ (z.optional \/ z.hasDefault \/ z.ty = "string")
  \/ a.ty = z.ty

\* one parameter against its zod type
FieldOk(z, a) ==
  \/ z.ty = "none"
  \/ a.ty = "undefined" /\ (z.optional \/ z.hasDefault)
  \/ a.ty = z.ty /\ (z.hasMin => a.n >= z.min)

\* schema validation of the arguments: unknown keys are stripped, defaults
\* filled in
SafeParse(tool, args) ==
  LET shape == InputSchema(tool)
  IN  [success |-> \A p \in Params : FieldOk(shape[p], Arg(args, p)),
       data |-> [p \in {q \in Params :
                          /\ shape[q].ty # "none"
                          /\ q \in DOMAIN args \/ shape[q].hasDefault} |->
                   IF p \in DOMAIN args THEN args[p] ELSE shape[p].def]]

(***************************************************************************)
(* The invocations the model draws.                                        *)
(***************************************************************************)
GoodEntry ==
  [workspaceId |-> AStr("w1"), description |-> AStr("work"),
   start |-> AStr("2024-01-01T09:00:00"), end |-> AStr("2024-01-01T17:00:00"),
   projectId |-> AStr("p1")]

ArgsOf(tool) ==
  CASE tool = "list-clockify-projects" ->
         {Args([workspaceId |-> AStr("w1")]),
          Args([workspaceId |-> AStr("w1"), name |-> AStr("Website")]),
          Args([workspaceId |-> ANum(5)]),
          NoArgs}
    [] tool = "list-clockify-tasks" ->
         {Args([workspaceId |-> AStr("w1"), projectId |-> AStr("p1")]),
          Args([workspaceId |-> AStr("w1")])}
    [] tool = "list-clockify-time-entries" ->
         LET base == [workspaceId |-> AStr("w1"), userId |-> AStr("u1"),
                      start |-> AStr("2024-01-01T00:00:00Z"),
                      end |-> AStr("2024-01-02T00:00:00Z")]
         IN  {Args(base),
              Args([page |-> ANum(2), pageSize |-> ANum(50)] @@ base),
              Args([page |-> ANum(0)] @@ base),
              Args([workspaceId |-> AStr("w1"), userId |-> AStr("u1"),
                    start |-> AStr("2024-01-01T00:00:00Z")])}
    [] tool = "create-clockify-time-entry" ->
         {Args(GoodEntry),
          Args([start |-> AStr("yesterday-ish")] @@ GoodEntry),
          Args([end |-> AStr("")] @@ GoodEntry),
          Args([billable |-> AStr("yes")] @@ GoodEntry)}
    [] tool = "update-clockify-time-entry" ->
         {Args([timeEntryId |-> AStr("e1"), billable |-> ABool("false")]
               @@ GoodEntry),
          Args([timeEntryId |-> AStr("e1"), end |-> AStr("yesterday-ish")]
               @@ GoodEntry),
          Args(GoodEntry)}
    [] tool = "delete-clockify-time-entry" ->
         {Args([timeEntryId |-> AStr("e1"), workspaceId |-> AStr("w1")]),
          Args([timeEntryId |-> AStr("e1")])}
    [] OTHER -> {NoArgs}

(***************************************************************************)
(* Dates.                                                                  *)
(***************************************************************************)
\* new Date(text): the hour of 2024-01-01 in local time, or an Invalid Date
NewDate(text) ==
  CASE text = "2024-01-01T09:00:00" -> [valid |-> TRUE, hour |-> 9]
    [] text = "2024-01-01T17:00:00" -> [valid |-> TRUE, hour |-> 17]
    [] OTHER -> [valid |-> FALSE, hour |-> 0]

\* the UTC instant written out
UTCText(hour) ==
  CASE hour = 8  -> "2024-01-01T08:00:00.000Z"
    [] hour = 16 -> "2024-01-01T16:00:00.000Z"
    [] OTHER     -> "2024-01-01T00:00:00.000Z"

\* a toISOString that prints an Invalid Date instead of throwing
ToISOString_NoThrow(d) ==
  IF ~d.valid THEN Return(JSString(<<"Invalid Date">>))
  ELSE Return(JSString(<<UTCText(d.hour - 1)>>))

\* Date.prototype.toISOString, on a host whose zone is UTC+01:00: the UTC
\* instant, or a RangeError for an Invalid Date
ToISOString(d) ==
  IF ~d.valid THEN Throw(<<"Invalid time value">>)
  ELSE Return(JSString(<<UTCText(d.hour - 1)>>))

(***************************************************************************)
(* The HTTP gateway: makeAPIRequest.                                       *)
(***************************************************************************)
CLOCKIFY_API_BASE == "https://api.clockify.me/api/v1"
USER_AGENT == "mcp_clockify/1.0.19"

\* the values process.env.CLOCKIFY_API_KEY takes
Credentials == {Undefined, "", "secret"}

\* a check for undefined only, which lets the empty string through
Truthy_DefinedOnly(credential) == credential # Undefined

\* !process.env.CLOCKIFY_API_KEY is false
Truthy(credential) == credential # Undefined /\ credential # ""

NoRequest ==
  [url |-> <<>>, method |-> "", body |-> NoText, key |-> Undefined,
   agent |-> ""]

\* the call of fetch: url, method, serialised body and headers
FetchRequest(url, method, body, credential) ==
  [url |-> <<CLOCKIFY_API_BASE>> \o url, method |-> method,
   body |-> IF body.t = "object" THEN JSONStringify(body)
            ELSE IF body.t = "string" THEN PlainText(body.s)
            ELSE NoText,
   key |-> credential, agent |-> USER_AGENT]

\* how fetch settles: it rejects, or resolves with a status and a body
NoResponse == [kind |-> "none", status |-> 0, body |-> <<>>, msg |-> <<>>]
Fault(msg) == [kind |-> "fault", status |-> 0, body |-> <<>>, msg |-> msg]
Response(status, body) ==
  [kind |-> "response", status |-> status, body |-> body, msg |-> <<>>]

Settlements ==
  {Fault(<<"fetch failed">>)}
  \cup {Response(200, b) : b \in Bodies}
  \cup {Response(204, <<>>)}
  \cup {Response(st, b) : st \in {404, 500},
                          b \in {<<>>, <<"Not Found">>, <<EmptyObjText>>}}

\* an ok that leaves 200 out
Ok_Above200(status) == status > 200 /\ status <= 299

\* response.ok
Ok(status) == status >= 200 /\ status <= 299

\* a message that leaves the status out
HttpErrorMessage_NoStatus(status, errorText) ==
  <<"HTTP error! response: ">> \o errorText

\* the message of the Error thrown for a non-success status
HttpErrorMessage(status, errorText) ==
  <<"HTTP error! status: ", ToString(status), ", response: ">> \o errorText

\* the catch of makeAPIRequest: every failure is thrown again, re-worded
CatchRethrow(msg) == Throw(<<"Error making Clockify API request: ">> \o msg)

\* what makeAPIRequest returns or throws once fetch has settled
GatewayResult(resp) ==
  IF resp.kind = "fault" THEN CatchRethrow(resp.msg)
  ELSE IF ~Ok(resp.status) THEN
         CatchRethrow(HttpErrorMessage(resp.status, resp.body))
  ELSE IF resp.status = 204 THEN Return(JSObject(NoProps))
  ELSE LET parsed == JSONParse(resp.body)
       IN  IF parsed.threw THEN CatchRethrow(parsed.msg) ELSE parsed

(***************************************************************************)
(* Tool results: sendResponse and responseWrapper.                         *)
(***************************************************************************)
NoResult == [ch |-> "none", isError |-> FALSE, text |-> NoText]

\* a CallToolResult with one text content
SendResponse(text) ==
  [ch |-> "result", isError |-> FALSE,
   text |-> IF text.t = "string" THEN PlainText(text.s)
            ELSE JSONStringify(text)]

\* the outcome of the function responseWrapper is given
Returned(result) == [threw |-> FALSE, msg |-> <<>>, result |-> result]
Thrown(msg)      == [threw |-> TRUE,  msg |-> msg,  result |-> NoResult]

\* a wrapper that lets the error through to the transport
ResponseWrapper_NoCatch(fn) ==
  IF fn.threw THEN [ch |-> "fault", isError |-> TRUE, text |-> PlainText(fn.msg)]
  ELSE fn.result

\* responseWrapper: the function's result, or its error as a text result
ResponseWrapper(fn) ==
  IF fn.threw THEN SendResponse(JSString(<<"Error: ">> \o fn.msg))
  ELSE fn.result

\* how the SDK answers arguments that fail the input schema: the handler is
\* not called; depending on the SDK's version the invalid-params error goes
\* out as a protocol error or as an error result of the SDK's own making
SdkRejections(tool) ==
  LET text == PlainText(<<"MCP error -32602: ",
                          "Invalid arguments for tool ", tool>>)
  IN  {[ch |-> "fault",  isError |-> TRUE, text |-> text],
       [ch |-> "result", isError |-> TRUE, text |-> text]}

(***************************************************************************)
(* The handlers: the arguments of makeAPIRequest, and the normalisation of *)
(* what it returns.                                                        *)
(***************************************************************************)
CallArgs(url, method, body) ==
  [threw |-> FALSE, msg |-> <<>>, url |-> url, method |-> method,
   body |-> body]
CallThrew(msg) ==
  [threw |-> TRUE, msg |-> msg, url |-> <<>>, method |-> "",
   body |-> JSUndefined]

\* input.name || ""
OrEmpty(a) == IF a.ty = "undefined" THEN "" ELSE a.s

\* the body of create and update: the dates go out as UTC instants, and an
\* Invalid Date makes toISOString throw while the body is being built
TimeEntryCall(url, method, input) ==
  LET start == ToISOString(NewDate(Arg(input, "start").s))
      end   == ToISOString(NewDate(Arg(input, "end").s))
  IN  IF start.threw THEN CallThrew(start.msg)
      ELSE IF end.threw THEN CallThrew(end.msg)
      ELSE CallArgs(url, method,
             JSObject(Props([billable    |-> Arg(input, "billable").s,
                             description |-> Arg(input, "description").s,
                             start       |-> start.val.s[1],
                             end         |-> end.val.s[1],
                             projectId   |-> Arg(input, "projectId").s])))

\* the evaluation of the arguments each handler calls makeAPIRequest with
RequestArgs(tool, input) ==
  CASE tool = "get-clockify-user" -> CallArgs(<<"/user">>, "GET", JSUndefined)
    [] tool = "list-clockify-workspaces" ->
         CallArgs(<<"/workspaces">>, "GET", JSUndefined)
    [] tool = "list-clockify-projects" ->
         CallArgs(<<"/workspaces/", Arg(input, "workspaceId").s,
                    "/projects?archived=false&page=1&page-size=5000&name=",
                    OrEmpty(Arg(input, "name"))>>, "GET", JSUndefined)
    [] tool = "list-clockify-tasks" ->
         CallArgs(<<"/workspaces/", Arg(input, "workspaceId").s, "/projects/",
                    Arg(input, "projectId").s, "/tasks">>, "GET", JSUndefined)
    [] tool = "list-clockify-time-entries" ->
         CallArgs(<<"/workspaces/", Arg(input, "workspaceId").s, "/user/",
                    Arg(input, "userId").s, "/time-entries?start=",
                    Arg(input, "start").s, "&end=", Arg(input, "end").s, "&page=",
                    ToString(Arg(input, "page").n), "&page-size=",
                    ToString(Arg(input, "pageSize").n)>>, "GET", JSUndefined)
    [] tool = "create-clockify-time-entry" ->
         TimeEntryCall(<<"/workspaces/", Arg(input, "workspaceId").s,
                         "/time-entries">>, "POST", input)
    [] tool = "update-clockify-time-entry" ->
         TimeEntryCall(<<"/workspaces/", Arg(input, "workspaceId").s,
                         "/time-entries/", Arg(input, "timeEntryId").s>>,
                       "PUT", input)
    [] tool = "delete-clockify-time-entry" ->
         CallArgs(<<"/workspaces/", Arg(input, "workspaceId").s,
                    "/time-entries/", Arg(input, "timeEntryId").s>>,
                  "DELETE", JSUndefined)

\* the properties each reducing tool keeps
FieldsOf(tool) ==
  CASE tool = "get-clockify-user" ->
         {"id", "email", "name", "activeWorkspace", "defaultWorkspace"}
    [] tool = "list-clockify-workspaces" -> {"id", "name"}
    [] tool = "list-clockify-projects" ->
         {"id", "name", "workspaceId", "billable"}
    [] tool = "list-clockify-tasks" -> {"id", "name", "projectId"}
    [] OTHER -> {}

\* an object literal built from the named properties of another object
Pick(o, fields) == [p \in (DOMAIN o \cap fields) |-> o[p]]

\* a map that walks the array from its end
MapItems_Reversed(response, fields) ==
  IF response.t # "array" THEN Thrown(<<"response.map is not a function">>)
  ELSE Returned(SendResponse(JSArray(
         [k \in 1..Len(response.a) |->
            ItemObj(Pick(response.a[Len(response.a) + 1 - k].o, fields))])))

\* response.map(item => ({...})): a TypeError unless response is an array
\* of objects
MapItems(response, fields) ==
  IF response.t = "null" THEN
    Thrown(<<"Cannot read properties of null (reading 'map')">>)
  ELSE IF response.t # "array" THEN
    Thrown(<<"response.map is not a function">>)
  ELSE IF \E k \in 1..Len(response.a) : response.a[k].t = "null" THEN
    Thrown(<<"Cannot read properties of null (reading 'id')">>)
  ELSE Returned(SendResponse(JSArray(
         [k \in 1..Len(response.a) |->
            ItemObj(Pick(response.a[k].o, fields))])))

DeletedMessage == "Time entry deleted successfully."

\* the rest of each handler, from the value makeAPIRequest returned
Normalize(tool, response) ==
  CASE tool = "get-clockify-user" ->
         IF response.t = "null" THEN
           Thrown(<<"Cannot read properties of null (reading 'id')">>)
         ELSE Returned(SendResponse(JSObject(Pick(response.o, FieldsOf(tool)))))
    [] tool \in {"list-clockify-workspaces", "list-clockify-projects",
                 "list-clockify-tasks"} ->
         MapItems(response, FieldsOf(tool))
    [] tool = "list-clockify-time-entries" -> Returned(SendResponse(response))
    [] tool \in {"create-clockify-time-entry",
                 "update-clockify-time-entry"} ->
         IF response.t = "null" THEN
           Thrown(<<"Cannot read properties of null (reading 'id')">>)
         ELSE IF Get(response.o, "timeInterval") = Undefined THEN
           Thrown(<<"Cannot read properties of undefined (reading 'start')">>)
         ELSE Returned(SendResponse(JSObject(Props(
                [id          |-> Get(response.o, "id"),
                 description |-> Get(response.o, "description"),
                 start       |-> Get(response.o, "timeInterval.start"),
                 end         |-> Get(response.o, "timeInterval.end"),
                 projectId   |-> Get(response.o, "projectId")]))))
    [] tool = "delete-clockify-time-entry" ->
         Returned(SendResponse(JSObject(Props([message |-> DeletedMessage]))))

(***************************************************************************)
(* The state: the environment and the invocations in progress.             *)
(***************************************************************************)
IdleSlot ==
  [pc |-> "idle", tool |-> "", args |-> NoArgs, cred |-> Undefined,
   req |-> NoRequest, nfetch |-> 0, resp |-> NoResponse, result |-> NoResult]

\* the invocation has its result
Done(s, result) == [s EXCEPT !.pc = "done", !.result = result]

\* a gateway that calls fetch once more after a failure
GatewayFailed_Retry(s, msg) ==
  IF s.nfetch < 2
  THEN [s EXCEPT !.pc = "fetch", !.nfetch = s.nfetch + 1]
  ELSE Done(s, ResponseWrapper(Thrown(msg)))

\* makeAPIRequest threw after fetch settled: the error reaches
\* responseWrapper, and that ends the invocation
GatewayFailed(s, msg) == Done(s, ResponseWrapper(Thrown(msg)))

\* a gateway that keeps the response in a variable of the module, which an
\* invocation that settles meanwhile overwrites
Complete_SharedResponse(s, resp) ==
  LET others == {j \in slots : inv[j].pc \in {"text", "json"}
                                /\ inv[j].resp # resp}
      last   == IF others = {} THEN resp
                ELSE inv[CHOOSE j \in others : TRUE].resp
      got    == GatewayResult(last)
  IN  IF got.threw THEN GatewayFailed([s EXCEPT !.resp = resp], got.msg)
      ELSE Done([s EXCEPT !.resp = resp],
                ResponseWrapper(Normalize(s.tool, got.val)))

\* the handler from the return of makeAPIRequest to its result
Complete(s, resp) ==
  LET got == GatewayResult(resp)
  IN  IF got.threw THEN GatewayFailed([s EXCEPT !.resp = resp], got.msg)
      ELSE Done([s EXCEPT !.resp = resp],
                ResponseWrapper(Normalize(s.tool, got.val)))

\* the handler from its call to its first suspension: the arguments are
\* evaluated, makeAPIRequest checks the credential and calls fetch
RunHandler(s, input, credential) ==
  LET call == RequestArgs(s.tool, input)
  IN  IF call.threw THEN Done(s, ResponseWrapper(Thrown(call.msg)))
      ELSE IF ~Truthy(credential) THEN
        Done(s, ResponseWrapper(Thrown(<<"Missing Clockify API key">>)))
      ELSE [s EXCEPT !.pc = "fetch",
                     !.req = FetchRequest(call.url, call.method, call.body,
                                          credential),
                     !.nfetch = s.nfetch + 1]

IsConfigError(result) ==
  result.text = PlainText(<<"Error: ", "Missing Clockify API key">>)

Init ==
  /\ env \in Credentials
  /\ slots = {1}
  /\ inv = [i \in slots |-> IdleSlot]
  /\ configErrorServed = FALSE
  /\ overlapped = {}

\* the invocation stands at an await of the network
Suspended(j) == inv[j].pc \in {"fetch", "text", "json"}

\* the environment of the process changes
SetEnv(credential) ==
  /\ credential # env
  /\ env' = credential
  /\ UNCHANGED <<inv, slots, configErrorServed, overlapped>>

\* the transport delivers a tools/call request
CallTool(i, tool, args) ==
  /\ inv[i].pc = "idle"
  /\ inv' = [inv EXCEPT ![i] = [IdleSlot EXCEPT !.pc = "received",
                                                !.tool = tool,
                                                !.args = args]]
  /\ overlapped' = IF \E j \in slots \ {i} : Suspended(j)
                   THEN overlapped \cup {i} ELSE overlapped
  /\ UNCHANGED <<env, slots, configErrorServed>>

\* the arguments are validated; the handler runs on valid ones only, up to
\* its call of fetch
Dispatch(i) ==
  /\ inv[i].pc = "received"
  /\ LET s      == [inv[i] EXCEPT !.cred = env]
         parsed == SafeParse(s.tool, s.args)
     IN  IF parsed.success
         THEN inv' = [inv EXCEPT ![i] = RunHandler(s, parsed.data, env)]
         ELSE \E r \in SdkRejections(s.tool) :
                inv' = [inv EXCEPT ![i] = Done(s, r)]
  /\ UNCHANGED <<env, slots, configErrorServed, overlapped>>

\* fetch settles: a rejection or a 204 ends the call of makeAPIRequest, any
\* other response has its body read next
FetchSettles(i, resp) ==
  /\ inv[i].pc = "fetch"
  /\ inv' = [inv EXCEPT ![i] =
       IF resp.kind = "fault" \/ resp.status = 204
       THEN Complete(inv[i], resp)
       ELSE [inv[i] EXCEPT !.pc = IF Ok(resp.status) THEN "json" ELSE "text",
                           !.resp = resp]]
  /\ UNCHANGED <<env, slots, configErrorServed, overlapped>>

\* response.text() or response.json() settles
BodyRead(i) ==
  /\ inv[i].pc \in {"text", "json"}
  /\ inv' = [inv EXCEPT ![i] = Complete(inv[i], inv[i].resp)]
  /\ UNCHANGED <<env, slots, configErrorServed, overlapped>>

\* the result goes back to the transport
Respond(i) ==
  /\ inv[i].pc = "done"
  /\ inv' = [inv EXCEPT ![i] = IdleSlot]
  /\ configErrorServed' = (configErrorServed \/ IsConfigError(inv[i].result))
  /\ overlapped' = overlapped \ {i}
  /\ UNCHANGED <<env, slots>>

Next ==
  \/ \E c \in Credentials : SetEnv(c)
  \/ \E i \in slots, tool \in Tools : \E args \in ArgsOf(tool) :
       CallTool(i, tool, args)
  \/ \E i \in slots : Dispatch(i)
  \/ \E i \in slots, resp \in Settlements : FetchSettles(i, resp)
  \/ \E i \in slots : BodyRead(i)
  \/ \E i \in slots : Respond(i)

Spec == Init /\ [][Next]_vars

(***************************************************************************)
(* Overlapping invocations: the transport delivers a second call before    *)
(* the first is answered.  The handlers are the same; the calls and the    *)
(* upstream answers are drawn from fewer cases.                            *)
(***************************************************************************)
OverlapCalls ==
  {[tool |-> "get-clockify-user", args |-> NoArgs],
   [tool |-> "list-clockify-projects",
    args |-> Args([workspaceId |-> AStr("w1")])],
   [tool |-> "list-clockify-projects", args |-> NoArgs],
   [tool |-> "create-clockify-time-entry",
    args |-> Args([start |-> AStr("yesterday-ish")] @@ GoodEntry)],
   [tool |-> "delete-clockify-time-entry",
    args |-> Args([timeEntryId |-> AStr("e1"), workspaceId |-> AStr("w1")])]}

OverlapSettlements ==
  {Fault(<<"fetch failed">>),
   Response(200, <<UserText>>),
   Response(200, ArrayText(<<ItemAText>>)),
   Response(204, <<>>),
   Response(404, <<"Not Found">>)}

InitOverlap ==
  /\ env \in Credentials
  /\ slots = {1, 2}
  /\ inv = [i \in slots |-> IdleSlot]
  /\ configErrorServed = FALSE
  /\ overlapped = {}

NextOverlap ==
  \/ \E c \in Credentials : SetEnv(c)
  \/ \E i \in slots, call \in OverlapCalls :
       CallTool(i, call.tool, call.args)
  \/ \E i \in slots : Dispatch(i)
  \/ \E i \in slots, resp \in OverlapSettlements : FetchSettles(i, resp)
  \/ \E i \in slots : BodyRead(i)
  \/ \E i \in slots : Respond(i)

SpecOverlap == InitOverlap /\ [][NextOverlap]_vars

(***************************************************************************)
(* The vocabulary of the claims.                                           *)
(***************************************************************************)
CreateOrUpdate == {"create-clockify-time-entry", "update-clockify-time-entry"}

ReducingLists ==
  {"list-clockify-workspaces", "list-clockify-projects", "list-clockify-tasks"}

\* the parameters each tool requires and those it may be given
RequiredOf(tool) ==
  CASE tool = "list-clockify-projects" -> {"workspaceId"}
    [] tool = "list-clockify-tasks" -> {"workspaceId", "projectId"}
    [] tool = "list-clockify-time-entries" ->
         {"workspaceId", "userId", "start", "end"}
    [] tool = "create-clockify-time-entry" ->
         {"workspaceId", "description", "start", "end", "projectId"}
    [] tool = "update-clockify-time-entry" ->
         {"timeEntryId", "workspaceId", "description", "start", "end",
          "projectId"}
    [] tool = "delete-clockify-time-entry" -> {"timeEntryId", "workspaceId"}
    [] OTHER -> {}

OptionalOf(tool) ==
  CASE tool = "list-clockify-projects" -> {"name"}
    [] tool = "list-clockify-time-entries" -> {"page", "pageSize"}
    [] tool \in CreateOrUpdate -> {"billable"}
    [] OTHER -> {}

TypeOfParam(p) ==
  IF p \in {"page", "pageSize"} THEN "number"
  ELSE IF p = "billable" THEN "boolean"
  ELSE "string"

\* a required parameter is missing, or a parameter has the wrong type, or a
\* page number is below 1
Malformed(tool, args) ==
  \/ \E p \in RequiredOf(tool) : Arg(args, p).ty = "undefined"
  \/ \E p \in RequiredOf(tool) \cup OptionalOf(tool) :
       Arg(args, p).ty \notin {"undefined", TypeOfParam(p)}
  \/ \E p \in {"page", "pageSize"} \cap OptionalOf(tool) :
       Arg(args, p).ty = "number" /\ Arg(args, p).n < 1

Finished(i) == inv[i].pc = "done"

WellFormed(i) == ~Malformed(inv[i].tool, inv[i].args)

\* a start or an end that does not parse as a date
DatesUnparseable(i) ==
  /\ inv[i].tool \in CreateOrUpdate
  /\ \/ ~NewDate(Arg(inv[i].args, "start").s).valid
     \/ ~NewDate(Arg(inv[i].args, "end").s).valid

CredentialMissing(i) == inv[i].cred \in {Undefined, ""}

TransportFault(i) == inv[i].resp.kind = "fault"

Answered(i, status) ==
  inv[i].resp.kind = "response" /\ inv[i].resp.status = status

UpstreamRefused(i) ==
  inv[i].resp.kind = "response"
  /\ (inv[i].resp.status < 200 \/ inv[i].resp.status > 299)

\* a normal tool result whose text is `Error: <message>`
ErrorText(result) ==
  /\ result.ch = "result"
  /\ result.text.fmt = "plain"
  /\ Len(result.text.s) >= 2
  /\ result.text.s[1] = "Error: "

\* a normal tool result that carries a JSON payload
JsonResult(result) ==
  /\ result.ch = "result"
  /\ ~result.isError
  /\ result.text.fmt = "json"

ConfigErrorText == <<"Error: ", "Missing Clockify API key">>

\* upstream arrays of whole objects
WholeItemSeqs == SeqsUpTo({ItemAText, ItemBText}, MaxItems)

C3_MissingCredentialIsConfigError ==
  \A i \in slots :
    (Finished(i) /\ WellFormed(i) /\ CredentialMissing(i))
      => /\ inv[i].result.text = PlainText(ConfigErrorText)
         /\ inv[i].nfetch = 0

\* C3, amended: with the credential absent or empty when the handler runs,
\* every tool whose arguments pass the schema and whose dates parse returns
\* the configuration error as an `Error:` text and makes no network call;
\* the check is made per call, so a call made with the credential present
\* is not answered with the configuration error and does reach the network,
\* whatever was served before.
C3_CredentialCheckedPerCall ==
  \A i \in slots :
    (Finished(i) /\ WellFormed(i) /\ ~DatesUnparseable(i))
      => IF CredentialMissing(i)
         THEN /\ inv[i].result = [ch |-> "result", isError |-> FALSE,
                                  text |-> PlainText(ConfigErrorText)]
              /\ inv[i].nfetch = 0
              /\ inv[i].req = NoRequest
         ELSE /\ inv[i].result.text # PlainText(ConfigErrorText)
              /\ inv[i].nfetch = 1
              /\ inv[i].req.key = inv[i].cred

\* the process answered one call with the configuration error and a later
\* one, made with the credential present, with a payload
C3_Witness ==
  /\ configErrorServed
  /\ \E i \in slots :
       /\ Finished(i) /\ ~CredentialMissing(i)
       /\ JsonResult(inv[i].result)

(***************************************************************************)
(* C4                                                                      *)
(***************************************************************************)
\* C4: when the upstream answers with a non-success status, the result is an
\* `Error:` text that embeds the status code and the raw body, whether or
\* not the body is JSON.
C4_RefusalEmbedsStatusAndBody ==
  \A i \in slots :
    (Finished(i) /\ UpstreamRefused(i))
      => /\ ErrorText(inv[i].result)
         /\ inv[i].result.text.s =
              <<"Error: ", "Error making Clockify API request: ",
                "HTTP error! status: ", ToString(inv[i].resp.status),
                ", response: ">> \o inv[i].resp.body

\* a 404 whose body is not JSON went out with its status and its body
C4_Witness ==
  \E i \in slots :
    /\ Finished(i)
    /\ inv[i].resp = Response(404, <<"Not Found">>)
    /\ inv[i].result.text.s[4] = "404"
    /\ inv[i].result.text.s[6] = "Not Found"

(***************************************************************************)
(* C5                                                                      *)
(***************************************************************************)
\* C5: for any tool, an invocation whose upstream call returns 204 does not
\* end in an `Error:` result.
C5_NoContentIsNeverAnError ==
  \A i \in slots :
    (Finished(i) /\ Answered(i, 204)) => ~ErrorText(inv[i].result)

(***************************************************************************)
(* C6                                                                      *)
(***************************************************************************)
\* C6, as claimed: each invocation makes exactly one network call.
C6_ExactlyOneCall ==
  \A i \in slots : (Finished(i) /\ WellFormed(i)) => inv[i].nfetch = 1

\* C6, amended: each invocation makes at most one network call: one once
\* its arguments passed the schema, its dates parsed and the credential was
\* present, none before that or otherwise; a call that failed is not made
\* again.
C6_AtMostOneCallNoRetry ==
  \A i \in slots :
    /\ inv[i].nfetch <= 1
    /\ inv[i].pc \in {"idle", "received"} => inv[i].nfetch = 0
    /\ inv[i].pc \in {"fetch", "text", "json"} => inv[i].nfetch = 1
    /\ Finished(i) =>
         inv[i].nfetch = IF /\ WellFormed(i)
                            /\ ~DatesUnparseable(i)
                            /\ ~CredentialMissing(i)
                         THEN 1 ELSE 0

\* a call that failed, and an invocation that ended having made it once
C6_Witness ==
  \E i \in slots :
    /\ Finished(i) /\ inv[i].nfetch = 1
    /\ (TransportFault(i) \/ UpstreamRefused(i))

(***************************************************************************)
(* C7                                                                      *)
(***************************************************************************)
\* the properties the claim names for each reducing list tool
C7_Subset(tool) ==
  CASE tool = "list-clockify-workspaces" -> {"id", "name"}
    [] tool = "list-clockify-projects" ->
         {"id", "name", "workspaceId", "billable"}
    [] tool = "list-clockify-tasks" -> {"id", "name", "projectId"}

\* C7: for an upstream array of n whole items the three reducing list tools
\* return n items in the same order, each with exactly the tool's properties
\* of the upstream item, and list-clockify-time-entries returns the array
\* unchanged.
C7_ListsKeepOrderAndFields ==
  \A i \in slots : \A toks \in WholeItemSeqs :
    (/\ Finished(i) /\ Answered(i, 200)
     /\ inv[i].resp.body = ArrayText(toks))
      => LET out == inv[i].result.text.v
         IN  /\ inv[i].tool \in ReducingLists =>
                  /\ JsonResult(inv[i].result)
                  /\ out.t = "array"
                  /\ Len(out.a) = Len(toks)
                  /\ \A k \in 1..Len(toks) :
                       /\ out.a[k].t = "object"
                       /\ DOMAIN out.a[k].o \subseteq Paths
                       /\ \A p \in Paths :
                            Get(out.a[k].o, p) =
                              IF p \in C7_Subset(inv[i].tool)
                              THEN Get(ObjOf(toks[k]), p) ELSE Undefined
             /\ inv[i].tool = "list-clockify-time-entries" =>
                  /\ JsonResult(inv[i].result)
                  /\ out.t = "array"
                  /\ Len(out.a) = Len(toks)
                  /\ \A k \in 1..Len(toks) :
                       out.a[k] = ItemObj(ObjOf(toks[k]))

\* two different projects came back reduced and in their order
C7_Witness ==
  \E i \in slots :
    /\ Finished(i)
    /\ inv[i].tool = "list-clockify-projects"
    /\ inv[i].resp = Response(200, ArrayText(<<ItemAText, ItemBText>>))
    /\ Len(inv[i].result.text.v.a) = 2
    /\ Get(inv[i].result.text.v.a[1].o, "id") = "a"
    /\ Get(inv[i].result.text.v.a[2].o, "billable") = "false"
    /\ Get(inv[i].result.text.v.a[2].o, "userId") = Undefined

(***************************************************************************)
(* C8                                                                      *)
(***************************************************************************)
\* C8: delete-clockify-time-entry returns exactly the fixed success message
\* whenever the upstream answers with a success status, whatever the body,
\* an empty or a non-JSON one included.
C8_DeleteSuccessIsFixedMessage ==
  \A i \in slots :
    (/\ Finished(i)
     /\ inv[i].tool = "delete-clockify-time-entry"
     /\ inv[i].resp.kind = "response"
     /\ inv[i].resp.status >= 200 /\ inv[i].resp.status <= 299)
      => /\ JsonResult(inv[i].result)
         /\ inv[i].result.text.v =
              JSObject(Props([message |-> "Time entry deleted successfully."]))

(***************************************************************************)
(* C9                                                                      *)
(***************************************************************************)
NoParameterTools == {"get-clockify-user", "list-clockify-workspaces"}

\* C9, as claimed: a tool with no parameters, called with empty input,
\* returns a non-error result whenever the credential is present and the
\* upstream answers 200.
C9_EmptyInputSucceedsOn200 ==
  \A i \in slots :
    (/\ Finished(i)
     /\ inv[i].tool \in NoParameterTools
     /\ inv[i].args = NoArgs
     /\ ~CredentialMissing(i)
     /\ Answered(i, 200))
      => JsonResult(inv[i].result)

\* a body the tool can read: JSON, and not null (get-clockify-user) or an
\* array without null elements (list-clockify-workspaces)
C9_ReadableBody(tool, body) ==
  IF tool = "get-clockify-user"
  THEN \/ \E tok \in ObjectTexts : body = <<tok>>
       \/ \E toks \in SeqsUpTo(ItemTexts, MaxItems) : body = ArrayText(toks)
  ELSE \E toks \in WholeItemSeqs : body = ArrayText(toks)

\* C9, amended: a tool with no parameters, called with empty input, returns
\* a non-error result whenever the credential is present and the upstream
\* answers 200 with a body that is JSON and is not null (get-clockify-user)
\* or is an array without null elements (list-clockify-workspaces).
C9_EmptyInputSucceedsOnReadable200 ==
  \A i \in slots :
    (/\ Finished(i)
     /\ inv[i].tool \in NoParameterTools
     /\ inv[i].args = NoArgs
     /\ ~CredentialMissing(i)
     /\ Answered(i, 200)
     /\ C9_ReadableBody(inv[i].tool, inv[i].resp.body))
      => /\ JsonResult(inv[i].result)
         /\ inv[i].result.text.v.t =
              IF inv[i].tool = "get-clockify-user" THEN "object" ELSE "array"

\* the user's profile came back on a 200
C9_Witness ==
  \E i \in slots :
    /\ Finished(i)
    /\ inv[i].tool = "get-clockify-user"
    /\ inv[i].args = NoArgs
    /\ inv[i].resp = Response(200, <<UserText>>)
    /\ JsonResult(inv[i].result)
    /\ Get(inv[i].result.text.v.o, "email") = "a@b.c"

(***************************************************************************)
(* C10                                                                     *)
(***************************************************************************)
\* C10, as claimed: in create and update a start or end that does not parse
\* is not rejected locally; the request is issued all the same and what the
\* caller sees is the upstream's answer to it.
C10_BadDateReachesUpstream ==
  \A i \in slots :
    (/\ Finished(i) /\ WellFormed(i) /\ DatesUnparseable(i)
     /\ ~CredentialMissing(i))
      => /\ inv[i].nfetch = 1
         /\ inv[i].resp.kind = "response"

\* C10, amended: in create and update a start or end that does not parse is
\* rejected locally: toISOString throws while the request body is built, no
\* request is issued, with or without a credential, and the caller sees
\* `Error: Invalid time value`.
C10_BadDateRejectedLocally ==
  \A i \in slots :
    (/\ inv[i].pc \notin {"idle", "received"}
     /\ WellFormed(i) /\ DatesUnparseable(i))
      => /\ Finished(i)
         /\ inv[i].nfetch = 0
         /\ inv[i].req = NoRequest
         /\ inv[i].resp = NoResponse
         /\ inv[i].result = [ch |-> "result", isError |-> FALSE,
                             text |-> PlainText(<<"Error: ",
                                                  "Invalid time value">>)]

\* a create with a start that is no date, rejected with the credential present
C10_Witness ==
  \E i \in slots :
    /\ Finished(i)
    /\ inv[i].tool = "create-clockify-time-entry"
    /\ WellFormed(i) /\ DatesUnparseable(i) /\ ~CredentialMissing(i)
    /\ inv[i].nfetch = 0
    /\ ErrorText(inv[i].result)

(***************************************************************************)
(* C11                                                                     *)
(***************************************************************************)
\* the results of an invocation that runs alone with these arguments, this
\* credential and this settlement of fetch
C11_AloneResults(tool, args, credential, resp) ==
  LET parsed == SafeParse(tool, args)
      call   == RequestArgs(tool, parsed.data)
      got    == GatewayResult(resp)
  IN  IF ~parsed.success THEN SdkRejections(tool)
      ELSE IF call.threw THEN {ResponseWrapper(Thrown(call.msg))}
      ELSE IF ~Truthy(credential) THEN
        {ResponseWrapper(Thrown(<<"Missing Clockify API key">>))}
      ELSE IF got.threw THEN {ResponseWrapper(Thrown(got.msg))}
      ELSE {ResponseWrapper(Normalize(tool, got.val))}

\* the request of an invocation that runs alone
C11_AloneRequest(tool, args, credential) ==
  LET call == RequestArgs(tool, SafeParse(tool, args).data)
  IN  FetchRequest(call.url, call.method, call.body, credential)

\* C11: when invocations overlap, under every interleaving each one's
\* request and result are those it would have running alone with the same
\* input, credential and upstream response, and no step of one invocation
\* changes another invocation or the environment they read.
C11_OverlapIsIndependent ==
  /\ [](\A i \in slots :
          /\ Suspended(i) =>
               inv[i].req = C11_AloneRequest(inv[i].tool, inv[i].args,
                                             inv[i].cred)
          /\ Finished(i) =>
               inv[i].result \in C11_AloneResults(inv[i].tool, inv[i].args,
                                                  inv[i].cred, inv[i].resp))
  /\ [][\A i \in slots :
          inv'[i] # inv[i] =>
            /\ env' = env
            /\ \A j \in slots \ {i} : inv'[j] = inv[j]]_vars

\* two invocations that overlapped have both finished, on different
\* upstream answers
C11_Witness ==
  \E i \in overlapped : \E j \in slots \ {i} :
    /\ Finished(i) /\ Finished(j)
    /\ inv[i].resp.kind = "response" /\ inv[j].resp.kind = "response"
    /\ inv[i].resp # inv[j].resp
    /\ JsonResult(inv[i].result)
    /\ ErrorText(inv[j].result)

====
